---- MODULE Spec2Model ----
(***************************************************************************)
(* Credential proof lifecycle manager (src/src/lib.rs): the caller-facing  *)
(* operations setup / generate blinds / prove / reblind / verify /         *)
(* get_comm_w_shared, each run inside with_working_dir, over a file store  *)
(* addressed by paths relative to the process working directory.           *)
(*                                                                         *)
(* The prover and setup modules of ecdsa_spartan2 (prove_circuit, reblind, *)
(* verify_circuit, setup_circuit_keys, generate_shared_blinds, the artifact *)
(* loaders) and PrepareCircuit are not among the source files; they are    *)
(* modelled from the specification (sections 4 and 6) and say so.  Their   *)
(* callers in lib.rs invoke them as statements and handle no result, so a  *)
(* failure inside them reaches the caller as a panic, the way run_circuit  *)
(* (ecdsa-spartan2/src/lib.rs) reports every backend failure with expect.  *)
(***************************************************************************)
EXTENDS Integers, Sequences, FiniteSets, TLC

VARIABLES
    cwd,    \* the process-wide working directory
    store,  \* store[d][p]: content of the file at relative path p in directory d
    last,   \* the most recent caller-facing call and what it returned
    ghost,  \* history: per directory, which kinds were proved since the blinds were generated
    steps,  \* the number of steps taken so far
    limit,  \* the number of steps the run may take
    thr,    \* threads that are inside with_working_dir, each at its own statement
    wtns    \* a run of load_witness_from_file: the file, the build and how far it got

vars == <<cwd, store, last, ghost, steps, limit, thr, wtns>>

-----------------------------------------------------------------------------
(* Bounds of the model *)

\* A run makes at most MaxSteps calls.
MaxSteps == 4
\* A run that may call run_complete_benchmark makes at most MaxPipelineSteps calls.
MaxPipelineSteps == 1
\* The 32-bit integers of load_witness_from_file are WordBits bits wide.
WordBits == 6
\* Blinding scalars are drawn from 1..MaxBlind.
MaxBlind == 2
\* A proving call draws its internal randomness from 1..MaxRand.
MaxRand == 2

-----------------------------------------------------------------------------
(* Directories *)

HomeDir == "/home"
DocsDir == "/documents"
NonexistentDir == "/nonexistent/test/path"
ExistingDirs == {HomeDir, DocsDir}
Dirs == ExistingDirs \cup {NonexistentDir}
\* The documents_path arguments of the model's calls.
DocumentsPaths == {DocsDir, NonexistentDir}

Kinds == {"prepare", "show"}

-----------------------------------------------------------------------------
(* Artifact paths: one constant per artifact type and circuit kind *)

PREPARE_PROVING_KEY == "prepare_proving.key"
PREPARE_VERIFYING_KEY == "prepare_verifying.key"
PREPARE_INSTANCE == "prepare_instance.bin"
PREPARE_WITNESS == "prepare_witness.bin"
PREPARE_PROOF == "prepare_proof.bin"
SHOW_PROVING_KEY == "show_proving.key"
SHOW_VERIFYING_KEY == "show_verifying.key"
SHOW_INSTANCE == "show_instance.bin"
SHOW_WITNESS == "show_witness.bin"
SHOW_PROOF == "show_proof.bin"
SHARED_BLINDS == "shared_blinds.bin"
\* The working-directory-relative input documents of the two circuits.
SHOW_INPUT_JSON == "circom/show_input.json"
PREPARE_INPUT_JSON == "circom/input.json"

ArtifactPaths ==
    {PREPARE_PROVING_KEY, PREPARE_VERIFYING_KEY, PREPARE_INSTANCE, PREPARE_WITNESS,
     PREPARE_PROOF, SHOW_PROVING_KEY, SHOW_VERIFYING_KEY, SHOW_INSTANCE, SHOW_WITNESS,
     SHOW_PROOF, SHARED_BLINDS}
InputPaths == {SHOW_INPUT_JSON, PREPARE_INPUT_JSON}
Paths == ArtifactPaths \cup InputPaths

-----------------------------------------------------------------------------
(* File contents *)

Absent == [t |-> "none"]
\* Bytes that no loader decodes (a truncated file, malformed JSON).
Malformed == [t |-> "bad"]
ProvingKey(kind) == [t |-> "pk", kind |-> kind]
VerifyingKey(kind) == [t |-> "vk", kind |-> kind]
SharedBlindSet(b) == [t |-> "blinds", b |-> b]
Instance(c) == [t |-> "instance", comm_W_shared |-> c]
Witness(v) == [t |-> "witness", shared |-> v]
Proof(kind, r, origin) == [t |-> "proof", kind |-> kind, rand |-> r, origin |-> origin]
InputDoc(x, y) == [t |-> "doc", deviceKeyX |-> x, deviceKeyY |-> y]

\* The input documents of the model: two credentials with different device keys.
DocA == InputDoc(1, 2)
DocB == InputDoc(2, 1)
Docs == {DocA, DocB}
\* The packaged fallback inputs (under CARGO_MANIFEST_DIR), one credential for both circuits.
PackagedShowDefault == DocA
PackagedPrepareDefault == DocA
\* The optional input_path argument: None, or Some(path of the document of credential B).
InputArgs == {Absent, DocB}

-----------------------------------------------------------------------------
(* Results of a caller-facing operation: Result<T, ZkProofError>, or a panic *)

Ok(v) == [tag |-> "Ok", variant |-> "-", message |-> "-", val |-> v]
Err(variant, message) == [tag |-> "Err", variant |-> variant, message |-> message, val |-> <<>>]
Panic == [tag |-> "Panic", variant |-> "-", message |-> "-", val |-> <<>>]

\* What a body (the closure given to with_working_dir) did: its result, the files of
\* its working directory afterwards, whether it unwound, the backend calls it made
\* and the artifacts it loaded.
Returned(res, fs, backend, reads) ==
    [res |-> res, fs |-> fs, panic |-> FALSE, backend |-> backend, reads |-> reads]
Unwound(fs, backend, reads) ==
    [res |-> Panic, fs |-> fs, panic |-> TRUE, backend |-> backend, reads |-> reads]

BackendCall(call, out) == [call |-> call, out |-> out]

\* The files a body sees: relative paths resolve against the working directory,
\* which is the target directory while the body runs.
EmptyDir == [p \in Paths |-> Absent]
Files(dir) == IF dir \in ExistingDirs THEN store[dir] ELSE EmptyDir

-----------------------------------------------------------------------------
(* with_working_dir *)

\* std::env::current_dir(): fails when the working directory cannot be read.
current_dir_ok == cwd \in ExistingDirs
\* std::env::set_current_dir(path): fails when path is no directory.
set_current_dir_ok(path) == path \in ExistingDirs

\* Variant of with_working_dir that propagates set_current_dir's error with a bare
\* `?` (the From<io::Error> conversion) instead of the map_err message.  C4 fails on it.
with_working_dir_bare_conversion(path, out) ==
    LET original_dir == cwd IN
    IF ~current_dir_ok
    THEN [res |-> Err("IoError", "current_dir"), cwd |-> cwd, ran |-> FALSE,
          fs |-> Files(path), backend |-> <<>>, reads |-> {}]
    ELSE IF ~set_current_dir_ok(path)
    THEN [res |-> Err("IoError", "IO error"), cwd |-> cwd,
          ran |-> FALSE, fs |-> Files(path), backend |-> <<>>, reads |-> {}]
    ELSE IF out.panic
    THEN [res |-> Panic, cwd |-> path, ran |-> TRUE,
          fs |-> out.fs, backend |-> out.backend, reads |-> out.reads]
    ELSE [res |-> out.res,
          cwd |-> IF set_current_dir_ok(original_dir) THEN original_dir ELSE path,
          ran |-> TRUE, fs |-> out.fs, backend |-> out.backend, reads |-> out.reads]

\* Variant of with_working_dir that drops set_current_dir's result and runs f
\* wherever the process happens to be.  C6 fails on it.
with_working_dir_ignores_switch(path, out) ==
    LET original_dir == cwd IN
    IF ~current_dir_ok
    THEN [res |-> Err("IoError", "current_dir"), cwd |-> cwd, ran |-> FALSE,
          fs |-> Files(path), backend |-> <<>>, reads |-> {}]
    ELSE IF out.panic
    THEN [res |-> Panic, cwd |-> IF set_current_dir_ok(path) THEN path ELSE cwd,
          ran |-> TRUE, fs |-> out.fs, backend |-> out.backend, reads |-> out.reads]
    ELSE [res |-> out.res,
          cwd |-> IF set_current_dir_ok(original_dir) THEN original_dir ELSE path,
          ran |-> TRUE, fs |-> out.fs, backend |-> out.backend, reads |-> out.reads]

\* Variant of with_working_dir that reports every error of f as an IoError, the
\* way it reports its own.  C25 fails on it.
with_working_dir_wraps_error(path, out) ==
    LET original_dir == cwd IN
    IF ~current_dir_ok
    THEN [res |-> Err("IoError", "current_dir"), cwd |-> cwd, ran |-> FALSE,
          fs |-> Files(path), backend |-> <<>>, reads |-> {}]
    ELSE IF ~set_current_dir_ok(path)
    THEN [res |-> Err("IoError", "Failed to set working directory"), cwd |-> cwd,
          ran |-> FALSE, fs |-> Files(path), backend |-> <<>>, reads |-> {}]
    ELSE IF out.panic
    THEN [res |-> Panic, cwd |-> path, ran |-> TRUE,
          fs |-> out.fs, backend |-> out.backend, reads |-> out.reads]
    ELSE [res |-> IF out.res.tag = "Err" THEN Err("IoError", out.res.message) ELSE out.res,
          cwd |-> IF set_current_dir_ok(original_dir) THEN original_dir ELSE path,
          ran |-> TRUE, fs |-> out.fs, backend |-> out.backend, reads |-> out.reads]

\* with_working_dir(path, f), where out is what f() does when run in directory path.
\* The directory is restored after f returns; the restoration's own result is
\* dropped (let _ =).  Nothing restores the directory when f unwinds.
with_working_dir(path, out) ==
    LET original_dir == cwd IN
    IF ~current_dir_ok
    THEN [res |-> Err("IoError", "current_dir"), cwd |-> cwd, ran |-> FALSE,
          fs |-> Files(path), backend |-> <<>>, reads |-> {}]
    ELSE IF ~set_current_dir_ok(path)
    THEN [res |-> Err("IoError", "Failed to set working directory"), cwd |-> cwd,
          ran |-> FALSE, fs |-> Files(path), backend |-> <<>>, reads |-> {}]
    ELSE IF out.panic
    THEN [res |-> Panic, cwd |-> path, ran |-> TRUE,
          fs |-> out.fs, backend |-> out.backend, reads |-> out.reads]
    ELSE [res |-> out.res,
          cwd |-> IF set_current_dir_ok(original_dir) THEN original_dir ELSE path,
          ran |-> TRUE, fs |-> out.fs, backend |-> out.backend, reads |-> out.reads]

-----------------------------------------------------------------------------
(* Circuit statements *)

\* PrepareCircuit::new(input_path) and ShowCircuit::new(input_path).
PrepareCircuit(input_path) == [kind |-> "prepare", input_path |-> input_path]
ShowCircuit(input_path) == [kind |-> "show", input_path |-> input_path]

\* The document ShowCircuit reads: circom/show_input.json of the working directory
\* if it exists, else the packaged default.  The circuit's input_path is not consulted.
show_input_json(fs) ==
    IF fs[SHOW_INPUT_JSON].t # "none" THEN fs[SHOW_INPUT_JSON] ELSE PackagedShowDefault

\* Variant of ShowCircuit::shared that lists the key coordinates in the other
\* order, [deviceKeyY, deviceKeyX].  C1 fails on it.
ShowCircuit_shared_swapped(fs) ==
    LET json_value == show_input_json(fs) IN
    IF json_value.t # "doc"
    THEN [panic |-> TRUE, vals |-> <<>>]
    ELSE [panic |-> FALSE, vals |-> <<json_value.deviceKeyY, json_value.deviceKeyX>>]

\* ShowCircuit::shared: [deviceKeyX, deviceKeyY] of the document; a document that
\* does not parse panics (expect).
ShowCircuit_shared(fs) ==
    LET json_value == show_input_json(fs) IN
    IF json_value.t # "doc"
    THEN [panic |-> TRUE, vals |-> <<>>]
    ELSE [panic |-> FALSE, vals |-> <<json_value.deviceKeyX, json_value.deviceKeyY>>]

\* Variant of ShowCircuit::synthesize that always opens the packaged default.  C30
\* fails on it.
ShowCircuit_synthesize_packaged_only(fs) ==
    LET json_value == PackagedShowDefault IN
    [panic |-> json_value.t # "doc"]

\* ShowCircuit::synthesize: reads the same document and panics the same way.
ShowCircuit_synthesize(fs) ==
    LET json_value == show_input_json(fs) IN
    [panic |-> json_value.t # "doc"]

\* The document PrepareCircuit reads (specification 4.1): the explicit path, else the
\* working-directory-relative default, else the packaged fallback.
prepare_input_json(circuit, fs) ==
    IF circuit.input_path.t # "none" THEN circuit.input_path
    ELSE IF fs[PREPARE_INPUT_JSON].t # "none" THEN fs[PREPARE_INPUT_JSON]
    ELSE PackagedPrepareDefault

\* PrepareCircuit's shared sub-vector (specification 4.1): the device-key coordinates.
PrepareCircuit_shared(circuit, fs) ==
    LET json_value == prepare_input_json(circuit, fs) IN
    IF json_value.t # "doc"
    THEN [panic |-> TRUE, vals |-> <<>>]
    ELSE [panic |-> FALSE, vals |-> <<json_value.deviceKeyX, json_value.deviceKeyY>>]

\* SpartanCircuit::shared, dispatched on the circuit.
circuit_shared(circuit, fs) ==
    IF circuit.kind = "show" THEN ShowCircuit_shared(fs) ELSE PrepareCircuit_shared(circuit, fs)

\* SpartanCircuit::synthesize, dispatched on the circuit.
circuit_synthesize(circuit, fs) ==
    IF circuit.kind = "show" THEN ShowCircuit_synthesize(fs)
    ELSE [panic |-> PrepareCircuit_shared(circuit, fs).panic]

-----------------------------------------------------------------------------
(* Proving backend (specification 6) *)

\* A commitment group of prime order Q with generators G1, G2 (one per shared value)
\* and H (the blind), written additively.
Q == 7
G1 == 1
G2 == 2
H == 3

\* Variant of Commit that leaves the blind out of the commitment.  C12 fails on it.
Commit_unblinded(values, b) == (values[1] * G1 + values[2] * G2) % Q

\* Commit(values, blinds): deterministic in its two arguments.
Commit(values, b) == (values[1] * G1 + values[2] * G2 + b * H) % Q

\* Verify(Proof, VerifyingKey): accepts the proofs the backend made for that key.
BackendVerify(proof, vk) ==
    IF proof.origin # "foreign" /\ proof.kind = vk.kind THEN "ok" ELSE "rejected"

\* What a wrapper of the prover module did: whether it panicked, the files
\* afterwards, the backend calls made, the artifacts loaded.
Wrapped(panic, fs, backend, reads) ==
    [panic |-> panic, fs |-> fs, backend |-> backend, reads |-> reads]

\* setup_circuit_keys(circuit, pk_path, vk_path): backend Setup once (it
\* synthesizes the circuit), then both keys are saved.
setup_circuit_keys(fs, circuit, pk_path, vk_path) ==
    IF circuit_synthesize(circuit, fs).panic
    THEN Wrapped(TRUE, fs, <<BackendCall("Setup", "panic")>>, {})
    ELSE Wrapped(FALSE,
                 [fs EXCEPT ![pk_path] = ProvingKey(circuit.kind),
                            ![vk_path] = VerifyingKey(circuit.kind)],
                 <<BackendCall("Setup", "ok")>>, {})

\* The backend's GenerateBlinds call with the fresh blind it returned.
Generated(b) == [call |-> "GenerateBlinds", out |-> "ok", blinds |-> b]

\* generate_shared_blinds(path, n): n fresh blinds b, saved at path (n = 1 row).
gen_shared_blinds(fs, path, b) ==
    Wrapped(FALSE, [fs EXCEPT ![path] = SharedBlindSet(b)], <<Generated(b)>>, {})

\* prove_circuit(circuit, pk_path, instance_path, witness_path, proof_path): loads
\* the proving key, runs PrepareProve and Prove with randomness r, commits the shared
\* values under the persisted SharedBlindSet and saves Instance, Witness and Proof.
prove_circuit(fs, circuit, pk_path, instance_path, witness_path, proof_path, r) ==
    LET sh == circuit_shared(circuit, fs) IN
    IF fs[pk_path].t # "pk"
    THEN Wrapped(TRUE, fs, <<>>, {pk_path})
    ELSE IF sh.panic \/ circuit_synthesize(circuit, fs).panic
    THEN Wrapped(TRUE, fs, <<BackendCall("PrepareProve", "panic")>>, {pk_path})
    ELSE IF fs[pk_path].kind # circuit.kind
    THEN Wrapped(TRUE, fs, <<BackendCall("PrepareProve", "error")>>, {pk_path})
    ELSE IF fs[SHARED_BLINDS].t # "blinds"
    THEN Wrapped(TRUE, fs, <<BackendCall("PrepareProve", "ok")>>, {pk_path, SHARED_BLINDS})
    ELSE LET c == Commit(sh.vals, fs[SHARED_BLINDS].b) IN
         Wrapped(FALSE,
                 [fs EXCEPT ![instance_path] = Instance(c),
                            ![witness_path] = Witness(sh.vals),
                            ![proof_path] = Proof(circuit.kind, r, "prove")],
                 <<BackendCall("PrepareProve", "ok"), BackendCall("Prove", "ok"),
                   BackendCall("Commit", "ok")>>,
                 {pk_path, SHARED_BLINDS})

\* reblind(circuit, pk_path, instance_path, witness_path, proof_path, shared_blinds_path):
\* loads the four artifacts, proves again from the stored Witness with fresh
\* randomness r, re-derives comm_W_shared from the stored shared values and the
\* SharedBlindSet, and saves Instance, Witness and Proof.
reblind(fs, circuit, pk_path, instance_path, witness_path, proof_path, shared_blinds_path, r) ==
    LET loads == {pk_path, instance_path, witness_path, shared_blinds_path} IN
    IF \/ fs[pk_path].t # "pk"
       \/ fs[instance_path].t # "instance"
       \/ fs[witness_path].t # "witness"
       \/ fs[shared_blinds_path].t # "blinds"
    THEN Wrapped(TRUE, fs, <<>>, loads)
    ELSE IF fs[pk_path].kind # circuit.kind
    THEN Wrapped(TRUE, fs, <<BackendCall("Prove", "error")>>, loads)
    ELSE LET c == Commit(fs[witness_path].shared, fs[shared_blinds_path].b) IN
         Wrapped(FALSE,
                 [fs EXCEPT ![instance_path] = Instance(c),
                            ![witness_path] = fs[witness_path],
                            ![proof_path] = Proof(circuit.kind, r, "reblind")],
                 <<BackendCall("Commit", "ok"), BackendCall("Prove", "ok")>>,
                 loads)

\* verify_circuit(proof_path, vk_path): loads the Proof and the VerifyingKey and
\* runs backend Verify; a load failure or a rejection panics.
verify_circuit(fs, proof_path, vk_path) ==
    IF fs[proof_path].t # "proof"
    THEN Wrapped(TRUE, fs, <<>>, {proof_path})
    ELSE IF fs[vk_path].t # "vk"
    THEN Wrapped(TRUE, fs, <<>>, {proof_path, vk_path})
    ELSE LET v == BackendVerify(fs[proof_path], fs[vk_path]) IN
         Wrapped(v # "ok", fs, <<BackendCall("Verify", v)>>, {proof_path, vk_path})

-----------------------------------------------------------------------------
(* Internal helpers of lib.rs *)

\* format!("{:?}", instance.comm_W_shared): the hex text of the commitment.
DebugFormat(c) == <<"0x", c>>

\* std::fs::metadata(path).len(): the byte length of a file.
ByteLen(content) ==
    CASE content.t = "proof" -> IF content.kind = "prepare" THEN 40 ELSE 48
      [] content.t = "bad" -> 3
      [] OTHER -> 8

\* extract_comm_w_shared(instance_path): every load failure becomes FileNotFound.
extract_comm_w_shared(fs, instance_path) ==
    IF fs[instance_path].t # "instance"
    THEN Err("FileNotFound", "Failed to load instance")
    ELSE Ok(DebugFormat(fs[instance_path].comm_W_shared))

\* get_proof_size(proof_path).
get_proof_size(fs, proof_path) ==
    IF fs[proof_path].t = "none"
    THEN Err("FileNotFound", "Failed to get proof size")
    ELSE Ok(ByteLen(fs[proof_path]))

\* The tail of every prove and reblind body: the proof size and comm_W_shared are
\* read back from the store and returned in a ProofResult.
proof_result(w, proof_path, instance_path) ==
    LET proof_size_bytes == get_proof_size(w.fs, proof_path)
        comm_w_shared == extract_comm_w_shared(w.fs, instance_path)
    IN  IF proof_size_bytes.tag = "Err"
        THEN Returned(proof_size_bytes, w.fs, w.backend, w.reads)
        ELSE IF comm_w_shared.tag = "Err"
        THEN Returned(comm_w_shared, w.fs, w.backend, w.reads \cup {instance_path})
        ELSE Returned(Ok(<<"ProofResult", proof_size_bytes.val, comm_w_shared.val>>),
                      w.fs, w.backend, w.reads \cup {instance_path})

-----------------------------------------------------------------------------
(* The bodies of the caller-facing operations: what each closure does when it runs
   in a directory whose files are fs *)

setup_prepare_keys_body(fs, input_path) ==
    LET circuit == PrepareCircuit(input_path)
        w == setup_circuit_keys(fs, circuit, PREPARE_PROVING_KEY, PREPARE_VERIFYING_KEY)
    IN  IF w.panic THEN Unwound(w.fs, w.backend, w.reads)
        ELSE Returned(Ok(<<"Prepare circuit keys setup completed">>), w.fs, w.backend, w.reads)

\* Variant of setup_show_keys that hands the proving-key path to the backend for
\* both keys, so the verifying key is never persisted.  C20 fails on it.
setup_show_keys_body_one_key_path(fs, input_path) ==
    LET circuit == ShowCircuit(input_path)
        w == setup_circuit_keys(fs, circuit, SHOW_PROVING_KEY, SHOW_PROVING_KEY)
    IN  IF w.panic THEN Unwound(w.fs, w.backend, w.reads)
        ELSE Returned(Ok(<<"Show circuit keys setup completed">>), w.fs, w.backend, w.reads)

setup_show_keys_body(fs, input_path) ==
    LET circuit == ShowCircuit(input_path)
        w == setup_circuit_keys(fs, circuit, SHOW_PROVING_KEY, SHOW_VERIFYING_KEY)
    IN  IF w.panic THEN Unwound(w.fs, w.backend, w.reads)
        ELSE Returned(Ok(<<"Show circuit keys setup completed">>), w.fs, w.backend, w.reads)

\* Variant of generate_shared_blinds that keeps a SharedBlindSet that is already
\* persisted instead of overwriting it.  C21 fails on it.
generate_shared_blinds_body_keeps_existing(fs, b) ==
    LET w == gen_shared_blinds(fs, SHARED_BLINDS, b)
        kept == IF fs[SHARED_BLINDS].t = "blinds" THEN fs ELSE w.fs
    IN  IF w.panic THEN Unwound(w.fs, w.backend, w.reads)
        ELSE Returned(Ok(<<"Shared blinds generated successfully">>), kept, w.backend, w.reads)

generate_shared_blinds_body(fs, b) ==
    LET w == gen_shared_blinds(fs, SHARED_BLINDS, b)
    IN  IF w.panic THEN Unwound(w.fs, w.backend, w.reads)
        ELSE Returned(Ok(<<"Shared blinds generated successfully">>), w.fs, w.backend, w.reads)

prove_prepare_body(fs, input_path, r) ==
    LET circuit == PrepareCircuit(input_path)
        w == prove_circuit(fs, circuit, PREPARE_PROVING_KEY, PREPARE_INSTANCE,
                           PREPARE_WITNESS, PREPARE_PROOF, r)
    IN  IF w.panic THEN Unwound(w.fs, w.backend, w.reads)
        ELSE proof_result(w, PREPARE_PROOF, PREPARE_INSTANCE)

\* Variant of prove_show that reads the proof size and comm_W_shared back from the
\* Prepare artifacts.  C24 fails on it.
prove_show_body_reports_prepare(fs, input_path, r) ==
    LET circuit == ShowCircuit(input_path)
        w == prove_circuit(fs, circuit, SHOW_PROVING_KEY, SHOW_INSTANCE,
                           SHOW_WITNESS, SHOW_PROOF, r)
    IN  IF w.panic THEN Unwound(w.fs, w.backend, w.reads)
        ELSE proof_result(w, PREPARE_PROOF, PREPARE_INSTANCE)

prove_show_body(fs, input_path, r) ==
    LET circuit == ShowCircuit(input_path)
        w == prove_circuit(fs, circuit, SHOW_PROVING_KEY, SHOW_INSTANCE,
                           SHOW_WITNESS, SHOW_PROOF, r)
    IN  IF w.panic THEN Unwound(w.fs, w.backend, w.reads)
        ELSE proof_result(w, SHOW_PROOF, SHOW_INSTANCE)

\* Variant of reblind_prepare that proves afresh from PrepareCircuit::default()
\* instead of reblinding the persisted witness.  C2 fails on it.
reblind_prepare_body_proves_afresh(fs, r) ==
    LET circuit == PrepareCircuit(Absent)
        w == prove_circuit(fs, circuit, PREPARE_PROVING_KEY, PREPARE_INSTANCE,
                           PREPARE_WITNESS, PREPARE_PROOF, r)
    IN  IF w.panic THEN Unwound(w.fs, w.backend, w.reads)
        ELSE proof_result(w, PREPARE_PROOF, PREPARE_INSTANCE)

\* Variant of reblind_prepare that passes the Show proof path to reblind.  C26
\* fails on it.
reblind_prepare_body_show_proof_path(fs, r) ==
    LET circuit == PrepareCircuit(Absent)
        w == reblind(fs, circuit, PREPARE_PROVING_KEY, PREPARE_INSTANCE,
                     PREPARE_WITNESS, SHOW_PROOF, SHARED_BLINDS, r)
    IN  IF w.panic THEN Unwound(w.fs, w.backend, w.reads)
        ELSE proof_result(w, PREPARE_PROOF, PREPARE_INSTANCE)

reblind_prepare_body(fs, r) ==
    LET circuit == PrepareCircuit(Absent)
        w == reblind(fs, circuit, PREPARE_PROVING_KEY, PREPARE_INSTANCE,
                     PREPARE_WITNESS, PREPARE_PROOF, SHARED_BLINDS, r)
    IN  IF w.panic THEN Unwound(w.fs, w.backend, w.reads)
        ELSE proof_result(w, PREPARE_PROOF, PREPARE_INSTANCE)

\* Variant of reblind_show that proves afresh from ShowCircuit::default()
\* whether or not a Show proof was ever made.  C15 fails on it.
reblind_show_body_proves_afresh(fs, r) ==
    LET circuit == ShowCircuit(Absent)
        w == prove_circuit(fs, circuit, SHOW_PROVING_KEY, SHOW_INSTANCE,
                           SHOW_WITNESS, SHOW_PROOF, r)
    IN  IF w.panic THEN Unwound(w.fs, w.backend, w.reads)
        ELSE proof_result(w, SHOW_PROOF, SHOW_INSTANCE)

reblind_show_body(fs, r) ==
    LET circuit == ShowCircuit(Absent)
        w == reblind(fs, circuit, SHOW_PROVING_KEY, SHOW_INSTANCE,
                     SHOW_WITNESS, SHOW_PROOF, SHARED_BLINDS, r)
    IN  IF w.panic THEN Unwound(w.fs, w.backend, w.reads)
        ELSE proof_result(w, SHOW_PROOF, SHOW_INSTANCE)

verify_prepare_body(fs) ==
    LET w == verify_circuit(fs, PREPARE_PROOF, PREPARE_VERIFYING_KEY)
    IN  IF w.panic THEN Unwound(w.fs, w.backend, w.reads)
        ELSE Returned(Ok(<<TRUE>>), w.fs, w.backend, w.reads)

\* Variant of verify_show that loads the Prepare verifying key.  C3 fails on it.
verify_show_body_prepare_key(fs) ==
    LET w == verify_circuit(fs, SHOW_PROOF, PREPARE_VERIFYING_KEY)
    IN  IF w.panic THEN Unwound(w.fs, w.backend, w.reads)
        ELSE Returned(Ok(<<TRUE>>), w.fs, w.backend, w.reads)

verify_show_body(fs) ==
    LET w == verify_circuit(fs, SHOW_PROOF, SHOW_VERIFYING_KEY)
    IN  IF w.panic THEN Unwound(w.fs, w.backend, w.reads)
        ELSE Returned(Ok(<<TRUE>>), w.fs, w.backend, w.reads)

\* The circuit_type strings a caller may pass.
Selectors == {"prepare", "show", "invalid"}

\* Variant of get_comm_w_shared whose match treats every string other than
\* "prepare" as "show".  C10 fails on it.
get_comm_w_shared_body_default_show(fs, circuit_type) ==
    LET instance_path ==
            IF circuit_type = "prepare" THEN PREPARE_INSTANCE ELSE SHOW_INSTANCE
    IN  Returned(extract_comm_w_shared(fs, instance_path), fs, <<>>, {instance_path})

get_comm_w_shared_body(fs, circuit_type) ==
    IF circuit_type \notin {"prepare", "show"}
    THEN Returned(Err("InvalidInput", "Invalid circuit_type"), fs, <<>>, {})
    ELSE LET instance_path ==
                 IF circuit_type = "prepare" THEN PREPARE_INSTANCE ELSE SHOW_INSTANCE
         IN  Returned(extract_comm_w_shared(fs, instance_path), fs, <<>>, {instance_path})

-----------------------------------------------------------------------------
(* run_complete_benchmark: the nine steps of the pipeline in one closure *)

\* The steps in the order of the closure's statements.
StepNames ==
    <<"Setup(Prepare)", "Setup(Show)", "GenerateSharedBlinds", "Prove(Prepare)",
      "Reblind(Prepare)", "Prove(Show)", "Reblind(Show)", "Verify(Prepare)",
      "Verify(Show)">>

\* The closure's progress: the files, the steps begun so far with their outcomes,
\* the artifacts loaded, the values held in local variables (mem), and whether it
\* is still running ("run"), has returned early with an error ("err", in res) or
\* has panicked ("panic").
BenchStart(fs) ==
    [fs |-> fs, backend |-> <<>>, reads |-> {}, stop |-> "run", res |-> Ok(<<>>),
     mem |-> [pk |-> [k \in Kinds |-> Absent], vk |-> [k \in Kinds |-> Absent],
              shared_blinds |-> Absent]]
BenchLog(st, k, out) == [st EXCEPT !.backend = Append(@, BackendCall(StepNames[k], out))]
BenchPanic(st, k) == [BenchLog(st, k, "panic") EXCEPT !.stop = "panic", !.res = Panic]
BenchErr(st, k, variant, message) ==
    [BenchLog(st, k, "error") EXCEPT !.stop = "err", !.res = Err(variant, message)]

\* Steps 1 and 2: setup_circuit_keys_no_save(circuit), then save_keys(..) mapped to
\* IoError.  fault = k: the save fails.
bench_setup(st, k, circuit, pk_path, vk_path, fault) ==
    IF st.stop # "run" THEN st
    ELSE IF circuit_synthesize(circuit, st.fs).panic THEN BenchPanic(st, k)
    ELSE LET held == [st EXCEPT !.mem.pk[circuit.kind] = ProvingKey(circuit.kind),
                                !.mem.vk[circuit.kind] = VerifyingKey(circuit.kind)]
         IN  IF fault = k THEN BenchErr(held, k, "IoError", "Failed to save keys")
             ELSE BenchLog([held EXCEPT !.fs[pk_path] = ProvingKey(circuit.kind),
                                        !.fs[vk_path] = VerifyingKey(circuit.kind)],
                           k, "ok")

\* Step 3: gen_shared_blinds(SHARED_BLINDS, NUM_SHARED), called as a statement.
\* fault = 3: it cannot save the set.
bench_blinds(st, b, fault) ==
    IF st.stop # "run" THEN st
    ELSE IF fault = 3 THEN BenchPanic(st, 3)
    ELSE BenchLog([st EXCEPT !.fs[SHARED_BLINDS] = SharedBlindSet(b)], 3, "ok")

\* Steps 4 and 6: prove_circuit_with_pk(circuit, &pk, instance, witness, proof),
\* called as a statement with the key held in memory.  fault = k: the backend
\* reports a proving error.
bench_prove(st, k, circuit, instance_path, witness_path, proof_path, r, fault) ==
    LET sh == circuit_shared(circuit, st.fs) IN
    IF st.stop # "run" THEN st
    ELSE IF sh.panic \/ circuit_synthesize(circuit, st.fs).panic THEN BenchPanic(st, k)
    ELSE IF fault = k \/ st.fs[SHARED_BLINDS].t # "blinds" THEN BenchPanic(st, k)
    ELSE BenchLog([st EXCEPT
                      !.fs[instance_path] = Instance(Commit(sh.vals, st.fs[SHARED_BLINDS].b)),
                      !.fs[witness_path] = Witness(sh.vals),
                      !.fs[proof_path] = Proof(circuit.kind, r, "prove"),
                      !.reads = @ \cup {SHARED_BLINDS}],
                  k, "ok")

\* Variant of steps 5 and 7 that saves the Instance it was handed instead of the
\* one re-derived under the SharedBlindSet.  C23 fails on it.
bench_reblind_keeps_instance(st, k, circuit, instance_path, witness_path, proof_path, r, fault) ==
    IF st.stop # "run" THEN st
    ELSE IF fault = k \/ st.fs[instance_path].t # "instance"
    THEN BenchErr([st EXCEPT !.reads = @ \cup {instance_path}], k,
                  "FileNotFound", "Failed to load instance")
    ELSE IF st.fs[witness_path].t # "witness"
    THEN BenchErr([st EXCEPT !.reads = @ \cup {instance_path, witness_path}], k,
                  "FileNotFound", "Failed to load witness")
    ELSE BenchLog([st EXCEPT !.fs[proof_path] = Proof(circuit.kind, r, "reblind")], k, "ok")

\* Steps 5 and 7: load_instance, load_witness (and in step 5 load_shared_blinds),
\* each mapped to FileNotFound, then reblind_with_loaded_data(..) called as a
\* statement.  Step 7 uses the blinds step 5 loaded.  fault = k: the instance
\* cannot be loaded.
bench_reblind(st, k, circuit, instance_path, witness_path, proof_path, r, fault) ==
    IF st.stop # "run" THEN st
    ELSE IF fault = k \/ st.fs[instance_path].t # "instance"
    THEN BenchErr([st EXCEPT !.reads = @ \cup {instance_path}], k,
                  "FileNotFound", "Failed to load instance")
    ELSE IF st.fs[witness_path].t # "witness"
    THEN BenchErr([st EXCEPT !.reads = @ \cup {instance_path, witness_path}], k,
                  "FileNotFound", "Failed to load witness")
    ELSE IF k = 5 /\ st.fs[SHARED_BLINDS].t # "blinds"
    THEN BenchErr([st EXCEPT !.reads = @ \cup {instance_path, witness_path, SHARED_BLINDS}],
                  k, "FileNotFound", "Failed to load shared blinds")
    ELSE LET shared_blinds == IF k = 5 THEN st.fs[SHARED_BLINDS] ELSE st.mem.shared_blinds
             witness == st.fs[witness_path]
         IN  BenchLog([st EXCEPT
                          !.mem.shared_blinds = shared_blinds,
                          !.fs[instance_path] = Instance(Commit(witness.shared, shared_blinds.b)),
                          !.fs[witness_path] = witness,
                          !.fs[proof_path] = Proof(circuit.kind, r, "reblind"),
                          !.reads = @ \cup ({instance_path, witness_path}
                                            \cup IF k = 5 THEN {SHARED_BLINDS} ELSE {})],
                      k, "ok")

\* Steps 8 and 9: load_proof mapped to FileNotFound, then
\* verify_circuit_with_loaded_data(&proof, &vk) called as a statement with the key
\* held in memory.  fault = k: the proof cannot be loaded.
bench_verify(st, k, kind, proof_path, fault) ==
    IF st.stop # "run" THEN st
    ELSE IF fault = k \/ st.fs[proof_path].t # "proof"
    THEN BenchErr([st EXCEPT !.reads = @ \cup {proof_path}], k,
                  "FileNotFound", "Failed to load proof")
    ELSE IF BackendVerify(st.fs[proof_path], st.mem.vk[kind]) # "ok"
    THEN BenchPanic([st EXCEPT !.reads = @ \cup {proof_path}], k)
    ELSE BenchLog([st EXCEPT !.reads = @ \cup {proof_path}], k, "ok")

\* The files whose sizes the closure measures at the end, in its order.
MeasuredPaths ==
    <<PREPARE_PROVING_KEY, PREPARE_VERIFYING_KEY, SHOW_PROVING_KEY, SHOW_VERIFYING_KEY,
      PREPARE_PROOF, SHOW_PROOF, PREPARE_WITNESS, SHOW_WITNESS>>

\* The tail of the closure: eight get_proof_size(..)? and Ok(BenchmarkResults{..}).
bench_results(st) ==
    LET sizes == [i \in 1..Len(MeasuredPaths) |-> get_proof_size(st.fs, MeasuredPaths[i])]
        failed == {i \in 1..Len(MeasuredPaths) : sizes[i].tag = "Err"}
    IN  IF st.stop # "run" THEN st
        ELSE IF failed # {}
        THEN [st EXCEPT !.stop = "err",
                        !.res = sizes[CHOOSE i \in failed : \A j \in failed : i <= j]]
        ELSE [st EXCEPT !.res = Ok(<<"BenchmarkResults",
                                     [i \in 1..Len(MeasuredPaths) |-> sizes[i].val]>>)]

\* Variant of run_complete_benchmark that puts the files back as they were when
\* a step fails.  C17 fails on it.
run_complete_benchmark_body_rolls_back(fs, input_path, b, r, fault) ==
    LET s1 == bench_setup(BenchStart(fs), 1, PrepareCircuit(input_path),
                          PREPARE_PROVING_KEY, PREPARE_VERIFYING_KEY, fault)
        s2 == bench_setup(s1, 2, ShowCircuit(input_path),
                          SHOW_PROVING_KEY, SHOW_VERIFYING_KEY, fault)
        s3 == bench_blinds(s2, b, fault)
        s4 == bench_prove(s3, 4, PrepareCircuit(input_path),
                          PREPARE_INSTANCE, PREPARE_WITNESS, PREPARE_PROOF, r, fault)
        s5 == bench_reblind(s4, 5, PrepareCircuit(Absent),
                            PREPARE_INSTANCE, PREPARE_WITNESS, PREPARE_PROOF, r, fault)
        s6 == bench_prove(s5, 6, ShowCircuit(input_path),
                          SHOW_INSTANCE, SHOW_WITNESS, SHOW_PROOF, r, fault)
        s7 == bench_reblind(s6, 7, ShowCircuit(Absent),
                            SHOW_INSTANCE, SHOW_WITNESS, SHOW_PROOF, r, fault)
        s8 == bench_verify(s7, 8, "prepare", PREPARE_PROOF, fault)
        s9 == bench_verify(s8, 9, "show", SHOW_PROOF, fault)
        end == bench_results(s9)
    IN  IF end.stop = "panic" THEN Unwound(fs, end.backend, end.reads)
        ELSE IF end.stop = "err" THEN Returned(end.res, fs, end.backend, end.reads)
        ELSE Returned(end.res, end.fs, end.backend, end.reads)

\* Variant of run_complete_benchmark that generates the blinds after
\* Prove(Prepare) instead of before it.  C14 fails on it.
run_complete_benchmark_body_late_blinds(fs, input_path, b, r, fault) ==
    LET s1 == bench_setup(BenchStart(fs), 1, PrepareCircuit(input_path),
                          PREPARE_PROVING_KEY, PREPARE_VERIFYING_KEY, fault)
        s2 == bench_setup(s1, 2, ShowCircuit(input_path),
                          SHOW_PROVING_KEY, SHOW_VERIFYING_KEY, fault)
        s4 == bench_prove(s2, 4, PrepareCircuit(input_path),
                          PREPARE_INSTANCE, PREPARE_WITNESS, PREPARE_PROOF, r, fault)
        s3 == bench_blinds(s4, b, fault)
        s5 == bench_reblind(s3, 5, PrepareCircuit(Absent),
                            PREPARE_INSTANCE, PREPARE_WITNESS, PREPARE_PROOF, r, fault)
        s6 == bench_prove(s5, 6, ShowCircuit(input_path),
                          SHOW_INSTANCE, SHOW_WITNESS, SHOW_PROOF, r, fault)
        s7 == bench_reblind(s6, 7, ShowCircuit(Absent),
                            SHOW_INSTANCE, SHOW_WITNESS, SHOW_PROOF, r, fault)
        s8 == bench_verify(s7, 8, "prepare", PREPARE_PROOF, fault)
        s9 == bench_verify(s8, 9, "show", SHOW_PROOF, fault)
        end == bench_results(s9)
    IN  IF end.stop = "panic" THEN Unwound(end.fs, end.backend, end.reads)
        ELSE Returned(end.res, end.fs, end.backend, end.reads)

\* Variant of run_complete_benchmark that hands the Prepare verifying key to the
\* Verify(Show) step.  C28 fails on it.
run_complete_benchmark_body_one_vk(fs, input_path, b, r, fault) ==
    LET s1 == bench_setup(BenchStart(fs), 1, PrepareCircuit(input_path),
                          PREPARE_PROVING_KEY, PREPARE_VERIFYING_KEY, fault)
        s2 == bench_setup(s1, 2, ShowCircuit(input_path),
                          SHOW_PROVING_KEY, SHOW_VERIFYING_KEY, fault)
        s3 == bench_blinds(s2, b, fault)
        s4 == bench_prove(s3, 4, PrepareCircuit(input_path),
                          PREPARE_INSTANCE, PREPARE_WITNESS, PREPARE_PROOF, r, fault)
        s5 == bench_reblind(s4, 5, PrepareCircuit(Absent),
                            PREPARE_INSTANCE, PREPARE_WITNESS, PREPARE_PROOF, r, fault)
        s6 == bench_prove(s5, 6, ShowCircuit(input_path),
                          SHOW_INSTANCE, SHOW_WITNESS, SHOW_PROOF, r, fault)
        s7 == bench_reblind(s6, 7, ShowCircuit(Absent),
                            SHOW_INSTANCE, SHOW_WITNESS, SHOW_PROOF, r, fault)
        s8 == bench_verify(s7, 8, "prepare", PREPARE_PROOF, fault)
        s9 == bench_verify(s8, 9, "prepare", SHOW_PROOF, fault)
        end == bench_results(s9)
    IN  IF end.stop = "panic" THEN Unwound(end.fs, end.backend, end.reads)
        ELSE Returned(end.res, end.fs, end.backend, end.reads)

run_complete_benchmark_body(fs, input_path, b, r, fault) ==
    LET s1 == bench_setup(BenchStart(fs), 1, PrepareCircuit(input_path),
                          PREPARE_PROVING_KEY, PREPARE_VERIFYING_KEY, fault)
        s2 == bench_setup(s1, 2, ShowCircuit(input_path),
                          SHOW_PROVING_KEY, SHOW_VERIFYING_KEY, fault)
        s3 == bench_blinds(s2, b, fault)
        s4 == bench_prove(s3, 4, PrepareCircuit(input_path),
                          PREPARE_INSTANCE, PREPARE_WITNESS, PREPARE_PROOF, r, fault)
        s5 == bench_reblind(s4, 5, PrepareCircuit(Absent),
                            PREPARE_INSTANCE, PREPARE_WITNESS, PREPARE_PROOF, r, fault)
        s6 == bench_prove(s5, 6, ShowCircuit(input_path),
                          SHOW_INSTANCE, SHOW_WITNESS, SHOW_PROOF, r, fault)
        s7 == bench_reblind(s6, 7, ShowCircuit(Absent),
                            SHOW_INSTANCE, SHOW_WITNESS, SHOW_PROOF, r, fault)
        s8 == bench_verify(s7, 8, "prepare", PREPARE_PROOF, fault)
        s9 == bench_verify(s8, 9, "show", SHOW_PROOF, fault)
        end == bench_results(s9)
    IN  IF end.stop = "panic" THEN Unwound(end.fs, end.backend, end.reads)
        ELSE Returned(end.res, end.fs, end.backend, end.reads)

-----------------------------------------------------------------------------
(* The state machine: one action per caller-facing operation *)

InstancePath(kind) == IF kind = "prepare" THEN PREPARE_INSTANCE ELSE SHOW_INSTANCE
WitnessPath(kind) == IF kind = "prepare" THEN PREPARE_WITNESS ELSE SHOW_WITNESS
ProofPath(kind) == IF kind = "prepare" THEN PREPARE_PROOF ELSE SHOW_PROOF
ProvingKeyPath(kind) == IF kind = "prepare" THEN PREPARE_PROVING_KEY ELSE SHOW_PROVING_KEY
VerifyingKeyPath(kind) == IF kind = "prepare" THEN PREPARE_VERIFYING_KEY ELSE SHOW_VERIFYING_KEY

NoCall ==
    [op |-> "none", kind |-> "-", target |-> HomeDir, circuit_type |-> "-", res |-> Ok(<<>>),
     ran |-> FALSE, backend |-> <<>>, reads |-> {}, cwdBefore |-> HomeDir]

\* The input document a circuit of this kind resolves in a directory with files fs.
ResolvedInput(kind, input_path, fs) ==
    IF kind = "show" THEN show_input_json(fs)
    ELSE prepare_input_json(PrepareCircuit(input_path), fs)

\* Whether step k of a pipeline run r completed.
StepDone(r, k) ==
    \E i \in 1..Len(r.backend) : r.backend[i] = BackendCall(StepNames[k], "ok")

\* The history after a run of the pipeline that completed some of its steps.
GhostBenchProve(g, r, k, kind, path, input_path) ==
    IF ~StepDone(r, k) THEN g
    ELSE [g EXCEPT !.linked = @ \cup {kind},
                   !.commAtProve[kind] = r.fs[InstancePath(kind)].comm_W_shared,
                   !.docAtProve[kind] = ResolvedInput(kind, input_path, store[path]),
                   !.instBlind[kind] = r.fs[SHARED_BLINDS].b]
GhostBench(path, input_path, r) ==
    LET g3 == IF StepDone(r, 3) THEN [ghost[path] EXCEPT !.linked = {}] ELSE ghost[path]
        g4 == GhostBenchProve(g3, r, 4, "prepare", path, input_path)
        g6 == GhostBenchProve(g4, r, 6, "show", path, input_path)
    IN  [ghost EXCEPT ![path] = g6]

\* History kept per directory: linked is the set of kinds with a successful Prove
\* since the SharedBlindSet was last generated; commAtProve[k] is the comm_W_shared
\* the latest successful Prove(k) persisted and docAtProve[k] the input document
\* that Prove resolved; instBlind[k] is the blind of the SharedBlindSet that was
\* persisted when the Instance of kind k was last written.
GhostLinkage(op, kind, path, input_path, r) ==
    IF ~r.ran THEN ghost
    ELSE IF op = "run_complete_benchmark" THEN GhostBench(path, input_path, r)
    ELSE IF r.res.tag # "Ok" THEN ghost
    ELSE IF op = "generate_shared_blinds"
    THEN [ghost EXCEPT ![path].linked = {}]
    ELSE IF op = "prove"
    THEN [ghost EXCEPT ![path].linked = @ \cup {kind},
                       ![path].commAtProve[kind] = r.fs[InstancePath(kind)].comm_W_shared,
                       ![path].docAtProve[kind] = ResolvedInput(kind, input_path, store[path]),
                       ![path].instBlind[kind] = r.fs[SHARED_BLINDS].b]
    ELSE IF op = "reblind"
    THEN [ghost EXCEPT ![path].instBlind[kind] = r.fs[SHARED_BLINDS].b]
    ELSE ghost

\* The lifecycle state of a kind (specification 4.3) after a successful operation.
LifeAfter(life, op) ==
    CASE op = "setup" -> IF life = "Unset" THEN "KeysReady" ELSE life
      [] op = "prove" -> "Proved"
      [] op = "reblind" -> "Reblinded"
      [] op = "verify" -> "Verified"
      [] OTHER -> life

\* The steps of the pipeline that belong to a kind: Setup, Prove, Reblind, Verify.
KindSteps(kind) == IF kind = "prepare" THEN <<1, 4, 5, 8>> ELSE <<2, 6, 7, 9>>
LifeOps == <<"setup", "prove", "reblind", "verify">>
LifeAfterBench(life, r, kind) ==
    LET done == {i \in 1..4 : StepDone(r, KindSteps(kind)[i])}
    IN  IF done = {} THEN life
        ELSE LifeAfter(IF life = "Unset" THEN "KeysReady" ELSE life,
                       LifeOps[CHOOSE i \in done : \A j \in done : j <= i])

\* life[k] is the lifecycle state of kind k in the directory and verified the set
\* of kinds a Verify has succeeded for.
GhostAfter(op, kind, path, input_path, r) ==
    LET g == GhostLinkage(op, kind, path, input_path, r)
        was == ghost[path].life
    IN  IF ~r.ran THEN g
        ELSE IF op = "run_complete_benchmark"
        THEN [g EXCEPT ![path].life = [k \in Kinds |-> LifeAfterBench(was[k], r, k)],
                       ![path].verified =
                           @ \cup {k \in Kinds : StepDone(r, KindSteps(k)[4])}]
        ELSE IF r.res.tag = "Ok" /\ kind \in Kinds
        THEN [g EXCEPT ![path].life[kind] = LifeAfter(was[kind], op),
                       ![path].verified = IF op = "verify" THEN @ \cup {kind} ELSE @]
        ELSE g

\* A call of operation op with documents_path = path returns r (with_working_dir's
\* outcome): the working directory, the files of the target and the record of the call.
Call(op, kind, path, input_path, circuit_type, r) ==
    /\ steps < limit
    /\ steps' = steps + 1
    /\ limit' = limit
    /\ thr' = thr
    /\ wtns' = wtns
    /\ cwd' = r.cwd
    /\ store' = IF r.ran THEN [store EXCEPT ![path] = r.fs] ELSE store
    /\ last' = [op |-> op, kind |-> kind, target |-> path, circuit_type |-> circuit_type, res |-> r.res,
                ran |-> r.ran, backend |-> r.backend, reads |-> r.reads, cwdBefore |-> cwd]
    /\ ghost' = GhostAfter(op, kind, path, input_path, r)

SetupPrepareKeys ==
    \E documents_path \in DocumentsPaths, input_path \in InputArgs :
        Call("setup", "prepare", documents_path, input_path, "-",
             with_working_dir(documents_path,
                              setup_prepare_keys_body(Files(documents_path), input_path)))

SetupShowKeys ==
    \E documents_path \in DocumentsPaths, input_path \in InputArgs :
        Call("setup", "show", documents_path, input_path, "-",
             with_working_dir(documents_path,
                              setup_show_keys_body(Files(documents_path), input_path)))

GenerateSharedBlinds ==
    \E documents_path \in DocumentsPaths, b \in 1..MaxBlind :
        Call("generate_shared_blinds", "-", documents_path, Absent, "-",
             with_working_dir(documents_path,
                              generate_shared_blinds_body(Files(documents_path), b)))

ProvePrepare ==
    \E documents_path \in DocumentsPaths, input_path \in InputArgs, r \in 1..MaxRand :
        Call("prove", "prepare", documents_path, input_path, "-",
             with_working_dir(documents_path,
                              prove_prepare_body(Files(documents_path), input_path, r)))

ProveShow ==
    \E documents_path \in DocumentsPaths, input_path \in InputArgs, r \in 1..MaxRand :
        Call("prove", "show", documents_path, input_path, "-",
             with_working_dir(documents_path,
                              prove_show_body(Files(documents_path), input_path, r)))

ReblindPrepare ==
    \E documents_path \in DocumentsPaths, r \in 1..MaxRand :
        Call("reblind", "prepare", documents_path, Absent, "-",
             with_working_dir(documents_path,
                              reblind_prepare_body(Files(documents_path), r)))

ReblindShow ==
    \E documents_path \in DocumentsPaths, r \in 1..MaxRand :
        Call("reblind", "show", documents_path, Absent, "-",
             with_working_dir(documents_path,
                              reblind_show_body(Files(documents_path), r)))

VerifyPrepare ==
    \E documents_path \in DocumentsPaths :
        Call("verify", "prepare", documents_path, Absent, "-",
             with_working_dir(documents_path, verify_prepare_body(Files(documents_path))))

VerifyShow ==
    \E documents_path \in DocumentsPaths :
        Call("verify", "show", documents_path, Absent, "-",
             with_working_dir(documents_path, verify_show_body(Files(documents_path))))

GetCommWShared ==
    \E documents_path \in DocumentsPaths, circuit_type \in Selectors :
        Call("get_comm_w_shared", "-", documents_path, Absent, circuit_type,
             with_working_dir(documents_path,
                              get_comm_w_shared_body(Files(documents_path), circuit_type)))

\* The steps the environment can make fail in a run of the pipeline (0: none).
Faults == 0..Len(StepNames)

RunCompleteBenchmark ==
    \E documents_path \in DocumentsPaths, input_path \in InputArgs,
       b \in 1..MaxBlind, r \in 1..MaxRand, fault \in Faults :
        Call("run_complete_benchmark", "-", documents_path, input_path, "-",
             with_working_dir(documents_path,
                              run_complete_benchmark_body(Files(documents_path),
                                                          input_path, b, r, fault)))

\* The host application puts a proof it received into the documents directory (the
\* verifying side): undecodable bytes, or a proof the backend did not make for this key.
ReceiveProof ==
    \E kind \in Kinds, forged \in BOOLEAN :
        /\ store' = [store EXCEPT ![DocsDir][ProofPath(kind)] =
                         IF forged THEN Proof(kind, 1, "foreign") ELSE Malformed]
        /\ steps < limit
        /\ steps' = steps + 1
        /\ last' = NoCall
        /\ UNCHANGED <<cwd, ghost, limit, thr, wtns>>

\* The input documents found in the documents directory, <<show, prepare>>: none
\* (the packaged defaults apply), a show document that does not parse, or the
\* documents of credential B.
InitialInputs == {<<Absent, Absent>>, <<Malformed, Absent>>, <<DocB, DocB>>}

\* The documents directory at start, <<inputs, keys>>: with each choice of input
\* documents and no artifact, or with the keys of both kinds persisted by Setup in
\* an earlier session of the application.
InitialDirs == (InitialInputs \X {FALSE}) \cup {<<<<Absent, Absent>>, TRUE>>}

KeysOfEarlierSession(fs) ==
    [fs EXCEPT ![PREPARE_PROVING_KEY] = ProvingKey("prepare"),
               ![PREPARE_VERIFYING_KEY] = VerifyingKey("prepare"),
               ![SHOW_PROVING_KEY] = ProvingKey("show"),
               ![SHOW_VERIFYING_KEY] = VerifyingKey("show")]

-----------------------------------------------------------------------------
(* load_witness_from_file (mobile_jwt_circuit.rs): the .wtns reader *)

\* u32 values are 0..U32-1; u64 values are wide enough for every product below.
U32 == 2^WordBits
\* if field_size != 32 { panic!(..) }
FIELD_SIZE == 32

\* A .wtns file as the reader sees it: prefix_ok says that the magic, version,
\* section count, section-1 type and size and section-2 type are the expected
\* ones; field_size, witness_len (u32) and sec2_size (u64) are the declared
\* values; elements is the number of 32-byte field elements that follow.
WtnsFile(prefix_ok, field_size, witness_len, sec2_size, elements) ==
    [prefix_ok |-> prefix_ok, field_size |-> field_size, witness_len |-> witness_len,
     sec2_size |-> sec2_size, elements |-> elements]

\* witness_len * field_size on u32: with overflow checks (a debug build) an
\* overflowing product panics; without them (a release build) it wraps.
mul_u32(a, b, overflow_checks) ==
    IF a * b < U32 THEN [panic |-> FALSE, val |-> a * b]
    ELSE IF overflow_checks THEN [panic |-> TRUE, val |-> 0]
    ELSE [panic |-> FALSE, val |-> (a * b) % U32]

\* if sec2_size != u64::from(witness_len * field_size) { panic!(..) }
size_check(file, overflow_checks) ==
    LET product == mul_u32(file.witness_len, file.field_size, overflow_checks) IN
    IF product.panic THEN "attempt to multiply with overflow"
    ELSE IF file.sec2_size # product.val THEN "Invalid witness section size"
    ELSE "ok"

\* No file is being loaded.
NotLoading ==
    [pc |-> "idle", file |-> WtnsFile(FALSE, 0, 0, 0, 0), overflow_checks |-> FALSE,
     why |-> "-", witness |-> 0]

\* The threads of the process; none is inside a call.
Threads == {"T1", "T2"}
Outside == [pc |-> "outside", target |-> HomeDir, original_dir |-> HomeDir,
            b |-> 0, ranIn |-> "-", res |-> Ok(<<>>)]
NoThreads == [th |-> [t \in Threads |-> Outside], overlapped |-> FALSE]

Start(bound) ==
    /\ limit = bound
    /\ thr = NoThreads
    /\ wtns = NotLoading
    /\ cwd = HomeDir
    /\ last = NoCall
    /\ steps = 0
    /\ \E dir \in InitialDirs :
         LET inputs == dir[1]
             keys == dir[2]
             docs == [EmptyDir EXCEPT ![SHOW_INPUT_JSON] = inputs[1],
                                      ![PREPARE_INPUT_JSON] = inputs[2]]
         IN  /\ store = [d \in ExistingDirs |->
                            IF d # DocsDir THEN EmptyDir
                            ELSE IF keys THEN KeysOfEarlierSession(docs) ELSE docs]
             /\ ghost = [d \in ExistingDirs |->
                            [linked |-> {}, commAtProve |-> [k \in Kinds |-> 0],
                             docAtProve |-> [k \in Kinds |-> Absent],
                             instBlind |-> [k \in Kinds |-> 0],
                             life |-> [k \in Kinds |->
                                          IF keys /\ d = DocsDir THEN "KeysReady"
                                          ELSE "Unset"],
                             verified |-> {}]]

Init == Start(MaxSteps)

Next ==
    \/ SetupPrepareKeys
    \/ SetupShowKeys
    \/ GenerateSharedBlinds
    \/ ProvePrepare
    \/ ProveShow
    \/ ReblindPrepare
    \/ ReblindShow
    \/ VerifyPrepare
    \/ VerifyShow
    \/ GetCommWShared
    \/ ReceiveProof

Spec == Init /\ [][Next]_vars

\* Runs of the pipeline, with the blinds generated again or a persisted proof
\* verified in between, in at most MaxPipelineSteps calls.
-----------------------------------------------------------------------------
(* Two threads calling generate_shared_blinds without a lock: with_working_dir
   statement by statement *)

\* A thread is inside a call from its first statement until it returns.
Inside(t) == thr.th[t].pc \in {"recorded", "switched", "ran"}
\* A step of t while another thread is inside a call: the two calls overlap.
Overlap(t) == thr.overlapped \/ \E u \in Threads \ {t} : Inside(u)

\* let original_dir = std::env::current_dir()?;
T_Record(t) ==
    \E path \in Dirs, b \in 1..MaxBlind :
        /\ thr.th[t].pc = "outside"
        /\ current_dir_ok
        /\ thr' = [thr EXCEPT !.th[t] = [pc |-> "recorded", target |-> path,
                                         original_dir |-> cwd, b |-> b, ranIn |-> "-",
                                         res |-> Ok(<<>>)],
                               !.overlapped = Overlap(t)]
        /\ UNCHANGED <<cwd, store, last, ghost, steps, limit, wtns>>

\* std::env::set_current_dir(path).map_err(..)?;
T_Switch(t) ==
    /\ thr.th[t].pc = "recorded"
    /\ IF set_current_dir_ok(thr.th[t].target)
       THEN /\ cwd' = thr.th[t].target
            /\ thr' = [thr EXCEPT !.th[t].pc = "switched", !.overlapped = Overlap(t)]
       ELSE /\ cwd' = cwd
            /\ thr' = [thr EXCEPT !.th[t].pc = "returned",
                                   !.th[t].res = Err("IoError", "Failed to set working directory"),
                                   !.overlapped = Overlap(t)]
    /\ UNCHANGED <<store, last, ghost, steps, limit, wtns>>

\* let result = f();  the closure's relative paths resolve against the working
\* directory as it is when the closure runs.
T_Body(t) ==
    LET out == generate_shared_blinds_body(Files(cwd), thr.th[t].b) IN
    /\ thr.th[t].pc = "switched"
    /\ store' = [store EXCEPT ![cwd] = out.fs]
    /\ thr' = [thr EXCEPT !.th[t].pc = "ran", !.th[t].ranIn = cwd, !.th[t].res = out.res,
                           !.overlapped = Overlap(t)]
    /\ UNCHANGED <<cwd, last, ghost, steps, limit, wtns>>

\* Variant of the last statements of with_working_dir that returns without
\* restoring the directory.  C18 fails on it: a call alone then loses the directory.
T_Restore_skipped(t) ==
    /\ thr.th[t].pc = "ran"
    /\ thr' = [thr EXCEPT !.th[t].pc = "returned", !.overlapped = Overlap(t)]
    /\ UNCHANGED <<cwd, store, last, ghost, steps, limit, wtns>>

\* let _ = std::env::set_current_dir(original_dir);  result
T_Restore(t) ==
    /\ thr.th[t].pc = "ran"
    /\ cwd' = IF set_current_dir_ok(thr.th[t].original_dir)
              THEN thr.th[t].original_dir ELSE cwd
    /\ thr' = [thr EXCEPT !.th[t].pc = "returned", !.overlapped = Overlap(t)]
    /\ UNCHANGED <<store, last, ghost, steps, limit, wtns>>

NextThreads ==
    \E t \in Threads :
        \/ T_Record(t)
        \/ T_Switch(t)
        \/ T_Body(t)
        \/ T_Restore(t)

ThreadsSpec == Init /\ [][NextThreads]_vars

\* The same two threads when the caller holds one mutex around each whole call
\* (specification 5): a thread enters with_working_dir only while no other thread
\* is inside it.

\* Variant of the caller's entry that does not take the mutex.  C29 fails on it.
T_LockedRecord_without_mutex(t) == T_Record(t)

\* The caller locks the mutex, then  let original_dir = std::env::current_dir()?;
T_LockedRecord(t) ==
    /\ \A u \in Threads \ {t} : ~Inside(u)
    /\ T_Record(t)

NextLocked ==
    \E t \in Threads :
        \/ T_LockedRecord(t)
        \/ T_Switch(t)
        \/ T_Body(t)
        \/ T_Restore(t)

LockedSpec == Init /\ [][NextLocked]_vars

-----------------------------------------------------------------------------

InitPipeline == Start(MaxPipelineSteps)

NextPipeline ==
    \/ RunCompleteBenchmark
    \/ GenerateSharedBlinds
    \/ VerifyPrepare
    \/ VerifyShow

PipelineSpec == InitPipeline /\ [][NextPipeline]_vars

-----------------------------------------------------------------------------
(* A run of load_witness_from_file on a file, in a debug or a release build *)

\* The section-2 sizes a file may declare next to witness_len: the product, the
\* product as a wrapping u32 computes it, and another value.
Sec2Sizes(witness_len) ==
    {witness_len * FIELD_SIZE, (witness_len * FIELD_SIZE) % U32, witness_len * FIELD_SIZE + 1}

\* File::open(filename): the file and the build are the inputs.
W_Open ==
    \E prefix_ok \in BOOLEAN, field_size \in {FIELD_SIZE, FIELD_SIZE \div 2},
       witness_len \in 0..(U32 - 1), complete \in BOOLEAN, overflow_checks \in BOOLEAN :
        \E sec2_size \in Sec2Sizes(witness_len) :
            /\ wtns.pc = "idle"
            /\ wtns' = [pc |-> "opened",
                        file |-> WtnsFile(prefix_ok, field_size, witness_len, sec2_size,
                                          IF complete THEN witness_len ELSE 0),
                        overflow_checks |-> overflow_checks, why |-> "-", witness |-> 0]
            /\ UNCHANGED <<cwd, store, last, ghost, steps, limit, thr>>

\* Lines 13-79: the header fields up to the section-2 type, each checked as read.
W_Header ==
    /\ wtns.pc = "opened"
    /\ wtns' = IF ~wtns.file.prefix_ok
               THEN [wtns EXCEPT !.pc = "panicked", !.why = "Invalid header"]
               ELSE IF wtns.file.field_size # FIELD_SIZE
               THEN [wtns EXCEPT !.pc = "panicked", !.why = "Invalid field size"]
               ELSE [wtns EXCEPT !.pc = "header_read"]
    /\ UNCHANGED <<cwd, store, last, ghost, steps, limit, thr>>

\* Lines 81-86: the section-2 size is read and compared with witness_len * field_size.
W_SizeCheck ==
    LET checked == size_check(wtns.file, wtns.overflow_checks) IN
    /\ wtns.pc = "header_read"
    /\ wtns' = IF checked = "ok" THEN [wtns EXCEPT !.pc = "size_checked"]
               ELSE [wtns EXCEPT !.pc = "panicked", !.why = checked]
    /\ UNCHANGED <<cwd, store, last, ghost, steps, limit, thr>>

\* Lines 88-101: witness_len elements are read and returned.
W_Elements ==
    /\ wtns.pc = "size_checked"
    /\ wtns' = IF wtns.file.elements < wtns.file.witness_len
               THEN [wtns EXCEPT !.pc = "panicked", !.why = "Failed to read witness element"]
               ELSE [wtns EXCEPT !.pc = "returned", !.witness = wtns.file.witness_len]
    /\ UNCHANGED <<cwd, store, last, ghost, steps, limit, thr>>

NextWitness ==
    \/ W_Open
    \/ W_Header
    \/ W_SizeCheck
    \/ W_Elements

WitnessSpec == Init /\ [][NextWitness]_vars

-----------------------------------------------------------------------------
(* Properties *)

IsInstance(d, kind) == store[d][InstancePath(kind)].t = "instance"
CommShared(d, kind) == store[d][InstancePath(kind)].comm_W_shared
CallReturned == last.op # "none"
SwitchFailed == CallReturned /\ ~set_current_dir_ok(last.target)

C2_ReblindPreservesCommShared ==
    \A d \in ExistingDirs : \A kind \in ghost[d].linked :
        /\ IsInstance(d, kind)
        /\ CommShared(d, kind) = ghost[d].commAtProve[kind]

\* Reblind(Prepare) has just succeeded on the Witness of a Prove that was given an
\* explicit input document (no document lies in the directory, and the shared
\* values are those of credential B).
C2_Witness ==
    /\ last.op = "reblind" /\ last.kind = "prepare" /\ last.res.tag = "Ok"
    /\ "prepare" \in ghost[DocsDir].linked
    /\ store[DocsDir][PREPARE_INPUT_JSON].t = "none"
    /\ store[DocsDir][PREPARE_WITNESS].shared = <<DocB.deviceKeyX, DocB.deviceKeyY>>
    /\ store[DocsDir][PREPARE_PROOF].origin = "reblind"
    /\ CommShared(DocsDir, "prepare") = ghost[DocsDir].commAtProve["prepare"]

\* C3 (verification round trip): a Verify(kind) whose body ran on a persisted Proof
\* that Prove(kind) or Reblind(kind) produced returns Ok(true).
C3_VerifyRoundTrip ==
    (/\ last.op = "verify" /\ last.ran
     /\ store[last.target][ProofPath(last.kind)].t = "proof"
     /\ store[last.target][ProofPath(last.kind)].origin \in {"prove", "reblind"})
    => last.res = Ok(<<TRUE>>)

\* Verify(Show) has just returned Ok(true) on a Proof made by Reblind(Show).
C3_Witness ==
    /\ last.op = "verify" /\ last.kind = "show" /\ last.res = Ok(<<TRUE>>)
    /\ store[DocsDir][SHOW_PROOF].t = "proof"
    /\ store[DocsDir][SHOW_PROOF].origin = "reblind"

\* C4 (bad target): a call given a nonexistent documents_path returns IoError
\* 'Failed to set working directory' and leaves the working directory where it was.
C4_BadTargetRestores ==
    SwitchFailed =>
        /\ last.res = Err("IoError", "Failed to set working directory")
        /\ cwd = last.cwdBefore

\* A prove call on a nonexistent directory has just returned.
C4_Witness ==
    /\ SwitchFailed /\ last.op = "prove"
    /\ last.res.variant = "IoError"
    /\ cwd = HomeDir

\* C5 (restoration on every exit path), as claimed: after any sequence of
\* caller-facing operations the working directory is the initial one.
C5_WorkingDirAlwaysRestored == cwd = HomeDir

\* C6 (switch failure short-circuits): a call whose directory switch fails runs no
\* body, makes no backend call, loads nothing and leaves every file as it was.
C6_SwitchFailureTouchesNothing ==
    [][(last'.op # "none" /\ ~set_current_dir_ok(last'.target))
       => (/\ store' = store
           /\ ~last'.ran
           /\ last'.backend = <<>>
           /\ last'.reads = {})]_vars

\* A setup call on a nonexistent directory has just returned while keys and a
\* SharedBlindSet are persisted in the documents directory.
C6_Witness ==
    /\ SwitchFailed /\ last.op = "setup"
    /\ store[DocsDir][PREPARE_PROVING_KEY].t = "pk"
    /\ store[DocsDir][SHARED_BLINDS].t = "blinds"

VerifyRejected ==
    /\ last.op = "verify" /\ last.ran
    /\ last.backend = <<BackendCall("Verify", "rejected")>>
VerifyLoadFailed ==
    /\ last.op = "verify" /\ last.ran
    /\ \/ store[last.target][ProofPath(last.kind)].t # "proof"
       \/ store[last.target][VerifyingKeyPath(last.kind)].t # "vk"

\* C7 (rejections are surfaced), as claimed: Verify returns Ok(true) only when the
\* backend accepted the Proof, and a backend rejection is returned as the error
\* VerificationFailed.
C7_RejectionIsVerificationFailed ==
    /\ (last.op = "verify" /\ last.res = Ok(<<TRUE>>))
           => last.backend = <<BackendCall("Verify", "ok")>>
    /\ VerifyRejected
           => (last.res.tag = "Err" /\ last.res.variant = "VerificationFailed")

\* C8 (load failure and rejection are told apart), as claimed: Verify with the Proof
\* or the VerifyingKey absent or undecodable returns FileNotFound or IoError, and
\* Verify of a loadable Proof the backend rejects returns VerificationFailed.
C8_LoadFailureDistinctFromRejection ==
    /\ VerifyLoadFailed
           => (last.res.tag = "Err" /\ last.res.variant \in {"FileNotFound", "IoError"})
    /\ VerifyRejected
           => (last.res.tag = "Err" /\ last.res.variant = "VerificationFailed")

\* C9 (Prove before Setup), as claimed: a Prove(kind) whose body ran with no
\* ProvingKey of that kind persisted returns the error SetupRequired or
\* FileNotFound, and no Instance or Witness of that kind is persisted.
C9_ProveWithoutKeyIsError ==
    (/\ last.op = "prove" /\ last.ran
     /\ store[last.target][ProvingKeyPath(last.kind)].t # "pk")
    => /\ last.res.tag = "Err"
       /\ last.res.variant \in {"SetupRequired", "FileNotFound"}
       /\ store[last.target][InstancePath(last.kind)].t = "none"
       /\ store[last.target][WitnessPath(last.kind)].t = "none"

\* C10 (invalid selector): get_comm_w_shared on an existing directory with a
\* circuit_type other than "prepare" and "show" returns InvalidInput and loads no
\* instance.
C10_InvalidSelector ==
    (/\ last.op = "get_comm_w_shared" /\ last.ran
     /\ last.circuit_type \notin {"prepare", "show"})
    => /\ last.res = Err("InvalidInput", "Invalid circuit_type")
       /\ last.reads = {}

\* get_comm_w_shared("invalid") has just returned while a Prepare Instance is
\* persisted in the directory it was called on.
C10_Witness ==
    /\ last.op = "get_comm_w_shared" /\ last.ran /\ last.circuit_type = "invalid"
    /\ IsInstance(last.target, "prepare")
    /\ last.res.variant = "InvalidInput"

\* The artifacts Reblind(kind) loads from the store.
ReblindNeeds(kind) ==
    {ProvingKeyPath(kind), InstancePath(kind), WitnessPath(kind), SHARED_BLINDS}
ArtifactMissing(fs, paths) == \E p \in paths : fs[p].t = "none"

\* C11 (Reblind with a missing artifact), as claimed: a Reblind(kind) whose body ran
\* while its Instance, Witness, ProvingKey or SharedBlindSet was missing returns
\* the error FileNotFound and leaves the persisted Proof and Instance as they were.
C11_ReblindMissingIsFileNotFound ==
    [][(/\ last'.op = "reblind" /\ last'.ran
        /\ ArtifactMissing(store[last'.target], ReblindNeeds(last'.kind)))
       => (/\ last'.res.tag = "Err"
           /\ last'.res.variant = "FileNotFound"
           /\ store'[last'.target][ProofPath(last'.kind)]
                  = store[last'.target][ProofPath(last'.kind)]
           /\ store'[last'.target][InstancePath(last'.kind)]
                  = store[last'.target][InstancePath(last'.kind)])]_vars

BenchRan == last.op = "run_complete_benchmark" /\ last.ran

\* C14 (order of the pipeline): the steps a run of run_complete_benchmark begins
\* are, in order, Setup(Prepare), Setup(Show), GenerateSharedBlinds, Prove(Prepare),
\* Reblind(Prepare), Prove(Show), Reblind(Show), Verify(Prepare), Verify(Show): each
\* at most once, none out of place, and all nine completed when the run succeeds.
\* So GenerateSharedBlinds comes after both Setups, before either Prove, and only once.
C14_PipelineOrder ==
    BenchRan =>
        /\ Len(last.backend) <= Len(StepNames)
        /\ \A i \in 1..Len(last.backend) :
               /\ last.backend[i].call = StepNames[i]
               /\ i < Len(last.backend) => last.backend[i].out = "ok"
        /\ last.res.tag = "Ok" =>
               /\ Len(last.backend) = Len(StepNames)
               /\ last.backend[Len(StepNames)].out = "ok"

\* A run of the pipeline has just succeeded.
C14_Witness ==
    /\ BenchRan /\ last.res.tag = "Ok"
    /\ Len(last.backend) = 9
    /\ last.backend[3] = BackendCall("GenerateSharedBlinds", "ok")
    /\ store[DocsDir][SHARED_BLINDS].t = "blinds"

\* The moves of the lifecycle state machine of specification 4.3:
\* Unset -> KeysReady -> (Proved <-> Reblinded) -> Verified.
ListedMoves ==
    {<<"Unset", "KeysReady">>, <<"KeysReady", "Proved">>, <<"Proved", "Reblinded">>,
     <<"Reblinded", "Proved">>, <<"Proved", "Verified">>, <<"Reblinded", "Verified">>}
\* The moves back from Verified that a further Prove or Reblind makes.
ReentryMoves == {<<"Verified", "Proved">>, <<"Verified", "Reblinded">>}
LifeStates == {"Unset", "KeysReady", "Proved", "Reblinded", "Verified"}
Stays == {<<l, l>> : l \in LifeStates}
HasProof == {"Proved", "Reblinded", "Verified"}

\* What a successful call needed before it: Prove a Setup of its kind (keys
\* persisted), Reblind a Prove of its kind (Instance and Witness persisted), Verify a
\* Setup and a Prove or Reblind of its kind.
SucceededInOrder ==
    (last'.op \in {"prove", "reblind", "verify"} /\ last'.res.tag = "Ok") =>
        LET d == last'.target
            k == last'.kind
        IN  /\ ghost[d].life[k] # "Unset"
            /\ last'.op = "prove" => store[d][ProvingKeyPath(k)].t = "pk"
            /\ last'.op = "reblind" =>
                   /\ ghost[d].life[k] \in HasProof
                   /\ store[d][InstancePath(k)].t = "instance"
                   /\ store[d][WitnessPath(k)].t = "witness"
            /\ last'.op = "verify" =>
                   /\ ghost[d].life[k] \in HasProof
                   /\ store[d][VerifyingKeyPath(k)].t = "vk"
LifeMovesWithin(moves) ==
    \A d \in ExistingDirs : \A k \in Kinds :
        <<ghost[d].life[k], ghost'[d].life[k]>> \in moves \cup Stays

\* C15 (lifecycle), as claimed: Prove, Reblind and Verify succeed only after the
\* operations they need, and the lifecycle state of a kind moves only along
\* Unset -> KeysReady -> (Proved <-> Reblinded) -> Verified.
C15_LifecycleAsListed ==
    [][SucceededInOrder /\ LifeMovesWithin(ListedMoves)]_vars

\* C15, amended: Prove, Reblind and Verify succeed only after the operations they
\* need, and the lifecycle state of a kind moves only along the listed arrows or
\* from Verified back to Proved or Reblinded, which a further Prove or Reblind does.
C15_LifecycleWithReentry ==
    [][SucceededInOrder /\ LifeMovesWithin(ListedMoves \cup ReentryMoves)]_vars

\* Prove(Prepare) has just succeeded in a directory where Verify(Prepare) had
\* succeeded before: the kind is back in Proved.
C15_Witness ==
    /\ last.op = "prove" /\ last.kind = "prepare" /\ last.res.tag = "Ok"
    /\ "prepare" \in ghost[DocsDir].verified
    /\ ghost[DocsDir].life["prepare"] = "Proved"

\* C16 (no retry, no swallowed failure), as claimed: within one call no backend
\* step runs twice, and every call returns to its caller either a success value
\* after all its stages succeeded or a typed error naming the stage that failed:
\* no failure leaves the call in any other way.
C16_EveryFailureIsTypedError ==
    CallReturned =>
        /\ \A i, j \in 1..Len(last.backend) :
               i # j => last.backend[i].call # last.backend[j].call
        /\ last.res.tag \in {"Ok", "Err"}
        /\ last.res.tag = "Ok" => \A i \in 1..Len(last.backend) : last.backend[i].out = "ok"

\* Step k of the latest pipeline run completed.
Completed(k) == Len(last.backend) >= k /\ last.backend[k].out = "ok"
BenchFailed == BenchRan /\ last.res.tag # "Ok"
\* The Instance, Witness and Proof of a kind as the kind's Prove step, or its
\* Reblind step if that completed too, left them.
KindArtifactsKept(fs, kind, reblinded) ==
    /\ fs[InstancePath(kind)].t = "instance"
    /\ fs[WitnessPath(kind)].t = "witness"
    /\ fs[SHARED_BLINDS].t = "blinds"
    /\ fs[InstancePath(kind)].comm_W_shared
           = Commit(fs[WitnessPath(kind)].shared, fs[SHARED_BLINDS].b)
    /\ fs[ProofPath(kind)].t = "proof"
    /\ fs[ProofPath(kind)].kind = kind
    /\ fs[ProofPath(kind)].origin = IF reblinded THEN "reblind" ELSE "prove"

\* C17 (partial runs keep their artifacts): when a run of the pipeline fails at
\* step k, the store still holds what the completed steps 1..k-1 wrote, each file
\* as the last completed step that writes it left it: both keys of a kind after its
\* Setup, the SharedBlindSet after step 3, the Instance, Witness and Proof of a
\* kind after its Prove (the Proof being Reblind's once Reblind completed).
C17_PartialRunKeepsArtifacts ==
    BenchFailed =>
        LET fs == store[last.target] IN
        /\ Completed(1) => /\ fs[PREPARE_PROVING_KEY] = ProvingKey("prepare")
                           /\ fs[PREPARE_VERIFYING_KEY] = VerifyingKey("prepare")
        /\ Completed(2) => /\ fs[SHOW_PROVING_KEY] = ProvingKey("show")
                           /\ fs[SHOW_VERIFYING_KEY] = VerifyingKey("show")
        /\ Completed(3) => fs[SHARED_BLINDS].t = "blinds"
        /\ Completed(4) => KindArtifactsKept(fs, "prepare", Completed(5))
        /\ Completed(6) => KindArtifactsKept(fs, "show", Completed(7))

\* A run has just failed at step 7: the Show Proof that step 6 wrote and the
\* Prepare Proof that step 5 wrote are in the store.
C17_Witness ==
    /\ BenchFailed /\ last.res.tag = "Err"
    /\ Len(last.backend) = 7 /\ Completed(6)
    /\ store[DocsDir][SHOW_PROOF] \in {Proof("show", r, "prove") : r \in 1..MaxRand}
    /\ store[DocsDir][PREPARE_PROOF] \in {Proof("prepare", r, "reblind") : r \in 1..MaxRand}
    /\ store[DocsDir][SHOW_VERIFYING_KEY].t = "vk"

\* The closure of thread t ran while the working directory was not its target.
RanElsewhere(t) == thr.th[t].ranIn \notin {"-", thr.th[t].target}
AllReturned == \A t \in Threads : thr.th[t].pc = "returned"
\* Both calls have returned and the working directory is not where it was.
DirectoryLost == AllReturned /\ cwd # HomeDir

\* C18 (concurrent calls are unsafe without serialization): a closure runs in a
\* directory that is not its call's target, or the working directory after both
\* calls differs from the one before them, only in runs where the two calls
\* overlapped; the witness is such a run, in which both things happen.
C18_UnsafeOnlyWhenOverlapping ==
    ((\E t \in Threads : RanElsewhere(t)) \/ DirectoryLost) => thr.overlapped

\* Both calls have returned; T1's closure wrote its blinds while the working
\* directory was T2's target, and the working directory ends at T1's target.
C18_Witness ==
    /\ AllReturned
    /\ thr.th["T1"].target = DocsDir /\ thr.th["T2"].target = HomeDir
    /\ thr.th["T1"].ranIn = HomeDir
    /\ thr.th["T1"].res.tag = "Ok"
    /\ store[HomeDir][SHARED_BLINDS] = SharedBlindSet(thr.th["T1"].b)
    /\ cwd = DocsDir

\* The calls of the backend's Setup made by the last operation.
SetupCalls == {i \in DOMAIN last.backend : last.backend[i].call = "Setup"}

\* C20 (setup): a Setup(kind) whose closure ran invoked the backend's Setup exactly
\* once and nothing else; when it reported success that invocation succeeded and
\* the directory holds the ProvingKey and the VerifyingKey of that kind at that
\* kind's two key paths, so success is never reported with zero or one key persisted.
C20_SetupPersistsBothKeys ==
    (last.op = "setup" /\ last.ran) =>
        /\ Cardinality(SetupCalls) = 1
        /\ Len(last.backend) = 1
        /\ last.res.tag = "Ok" =>
               /\ last.backend[1].out = "ok"
               /\ store[last.target][ProvingKeyPath(last.kind)] = ProvingKey(last.kind)
               /\ store[last.target][VerifyingKeyPath(last.kind)] = VerifyingKey(last.kind)

\* The first call of a run is a successful Setup(Show) in a directory that held no
\* key: both Show keys are there, and the Prepare keys are still absent.
C20_Witness ==
    /\ steps = 1
    /\ last.op = "setup" /\ last.kind = "show" /\ last.res.tag = "Ok"
    /\ Cardinality(SetupCalls) = 1
    /\ store[DocsDir][SHOW_PROVING_KEY] = ProvingKey("show")
    /\ store[DocsDir][SHOW_VERIFYING_KEY] = VerifyingKey("show")
    /\ store[DocsDir][PREPARE_PROVING_KEY] = Absent
    /\ store[DocsDir][PREPARE_VERIFYING_KEY] = Absent

\* The last call was a successful Prove or Reblind of a kind.
ProvedOrReblinded(l) == l.op \in {"prove", "reblind"} /\ l.kind \in Kinds /\ l.res.tag = "Ok"

\* C21 (GenerateSharedBlinds overwrites): a step that is a successful
\* GenerateSharedBlinds leaves, at the single shared-blinds path of its directory,
\* exactly the set the backend generated in that call, whatever was there before;
\* and a step that is a successful Prove or Reblind reads the set persisted at that
\* path, leaves it as it is, and writes an Instance whose comm_W_shared is the
\* commitment to the stored shared values under that set.
C21_BlindsOverwrittenAndUsed ==
    [][LET d == last'.target IN
       /\ (last'.op = "generate_shared_blinds" /\ last'.res.tag = "Ok") =>
              /\ Len(last'.backend) = 1
              /\ last'.backend[1].call = "GenerateBlinds"
              /\ store'[d][SHARED_BLINDS] = SharedBlindSet(last'.backend[1].blinds)
              /\ \A p \in Paths \ {SHARED_BLINDS} : store'[d][p] = store[d][p]
       /\ ProvedOrReblinded(last') =>
              /\ SHARED_BLINDS \in last'.reads
              /\ store[d][SHARED_BLINDS].t = "blinds"
              /\ store'[d][SHARED_BLINDS] = store[d][SHARED_BLINDS]
              /\ store'[d][InstancePath(last'.kind)].comm_W_shared
                     = Commit(store'[d][WitnessPath(last'.kind)].shared,
                              store[d][SHARED_BLINDS].b)]_vars

\* Prove(Prepare) has just succeeded under a SharedBlindSet that replaced the one
\* the Show Instance was written under: the Prepare Instance commits under the
\* set now persisted and not under the previous one.
C21_Witness ==
    /\ last.op = "prove" /\ last.kind = "prepare" /\ last.res.tag = "Ok"
    /\ IsInstance(DocsDir, "show")
    /\ store[DocsDir][SHARED_BLINDS].t = "blinds"
    /\ ghost[DocsDir].instBlind["show"] # store[DocsDir][SHARED_BLINDS].b
    /\ CommShared(DocsDir, "prepare")
           = Commit(store[DocsDir][PREPARE_WITNESS].shared, store[DocsDir][SHARED_BLINDS].b)
    /\ CommShared(DocsDir, "prepare")
           # Commit(store[DocsDir][PREPARE_WITNESS].shared, ghost[DocsDir].instBlind["show"])

\* Input resolution as the specification words it: the first candidate that exists.
FirstExisting(candidates) ==
    LET existing == {i \in DOMAIN candidates : candidates[i].t # "none"}
    IN  candidates[CHOOSE i \in existing : \A j \in existing : i <= j]
\* The shared values of a document: its device-key coordinates.
DocShared(doc) == <<doc.deviceKeyX, doc.deviceKeyY>>
\* This step is the call prove_show(documents_path, input_path) and it succeeded.
ProveShowSucceeds(documents_path, input_path, r) ==
    /\ Call("prove", "show", documents_path, input_path, "-",
            with_working_dir(documents_path,
                             prove_show_body(Files(documents_path), input_path, r)))
    /\ last'.res.tag = "Ok"

\* C22 (input resolution order): a successful Prove(Show) proves the first existing
\* document among the explicit path argument, circom/show_input.json of the working
\* directory and the packaged default, so the Witness it persists holds the shared
\* values of that document.
C22_FirstExistingInputWins ==
    [][\A documents_path \in DocumentsPaths, input_path \in InputArgs, r \in 1..MaxRand :
          ProveShowSucceeds(documents_path, input_path, r) =>
              LET doc == FirstExisting(<<input_path, store[documents_path][SHOW_INPUT_JSON],
                                         PackagedShowDefault>>)
              IN  /\ doc.t = "doc"
                  /\ store'[documents_path][SHOW_WITNESS].shared = DocShared(doc)]_vars

\* Form (a) of Reblind(kind): the caller-facing operation, loading from the store.
ReblindFromStore(fs, kind, r) ==
    IF kind = "prepare" THEN reblind_prepare_body(fs, r) ELSE reblind_show_body(fs, r)
\* Form (b) of Reblind(kind): the orchestrator's step, handed the artifacts of fs in
\* memory (the proving key and, for Show, the blinds loaded earlier).
ReblindInMemory(fs, kind, r) ==
    LET st == [BenchStart(fs) EXCEPT !.mem.pk[kind] = fs[ProvingKeyPath(kind)],
                                     !.mem.shared_blinds = fs[SHARED_BLINDS]]
    IN  bench_reblind(st, KindSteps(kind)[3],
                      IF kind = "prepare" THEN PrepareCircuit(Absent) ELSE ShowCircuit(Absent),
                      InstancePath(kind), WitnessPath(kind), ProofPath(kind), r, 0)
\* The artifacts a Reblind of the kind needs are persisted in fs.
ReblindReady(fs, kind) ==
    /\ fs[ProvingKeyPath(kind)] = ProvingKey(kind)
    /\ fs[InstancePath(kind)].t = "instance"
    /\ fs[WitnessPath(kind)].t = "witness"
    /\ fs[SHARED_BLINDS].t = "blinds"
WrittenPaths(before, after) == {p \in Paths : after[p] # before[p]}

\* C23 (the two forms of Reblind agree): from any store state, form (a) of
\* Reblind(kind) succeeds exactly when the artifacts it loads are persisted, and then
\* form (b), handed those artifacts, completes too, writes the same paths, persists
\* an Instance with the same comm_W_shared and the same Witness, and its Proof is
\* accepted by exactly the VerifyingKeys that accept the Proof of form (a).
C23_ReblindFormsAgree ==
    \A d \in ExistingDirs, kind \in Kinds, r \in 1..MaxRand :
        LET fs == store[d]
            a == ReblindFromStore(fs, kind, r)
            b == ReblindInMemory(fs, kind, r)
        IN  /\ (~a.panic /\ a.res.tag = "Ok") <=> ReblindReady(fs, kind)
            /\ ReblindReady(fs, kind) =>
                   /\ b.stop = "run"
                   /\ WrittenPaths(fs, b.fs) = WrittenPaths(fs, a.fs)
                   /\ b.fs[InstancePath(kind)].comm_W_shared
                          = a.fs[InstancePath(kind)].comm_W_shared
                   /\ b.fs[WitnessPath(kind)] = a.fs[WitnessPath(kind)]
                   /\ \A k \in Kinds :
                          BackendVerify(b.fs[ProofPath(kind)], VerifyingKey(k))
                              = BackendVerify(a.fs[ProofPath(kind)], VerifyingKey(k))

\* Reblind(Prepare) has just succeeded after the SharedBlindSet was generated again
\* with another blind, so the persisted comm_W_shared is no longer the one Prove
\* wrote; the artifacts are in place for a further Reblind of either form.
C23_Witness ==
    /\ last.op = "reblind" /\ last.kind = "prepare" /\ last.res.tag = "Ok"
    /\ ReblindReady(store[DocsDir], "prepare")
    /\ ghost[DocsDir].commAtProve["prepare"] # CommShared(DocsDir, "prepare")

\* C24 (ProofResult describes this call's artifacts): after a successful Prove or
\* Reblind of a kind, the ProofResult it returned carries the byte length of the
\* Proof now stored at that kind's proof path and the encoding of the comm_W_shared
\* of the Instance now stored at that kind's instance path, and that Proof is the
\* one this call made.
C24_ProofResultDescribesArtifacts ==
    ProvedOrReblinded(last) =>
        LET fs == store[last.target] IN
        /\ fs[ProofPath(last.kind)].t = "proof"
        /\ fs[ProofPath(last.kind)].kind = last.kind
        /\ fs[ProofPath(last.kind)].origin = last.op
        /\ IsInstance(last.target, last.kind)
        /\ last.res.val = <<"ProofResult", ByteLen(fs[ProofPath(last.kind)]),
                            DebugFormat(CommShared(last.target, last.kind))>>

\* Prove(Show) has just succeeded while a Prepare Proof of another size and a
\* Prepare Instance with another comm_W_shared are persisted next to its artifacts.
C24_Witness ==
    /\ last.op = "prove" /\ last.kind = "show" /\ last.res.tag = "Ok"
    /\ IsInstance(DocsDir, "prepare") /\ IsInstance(DocsDir, "show")
    /\ store[DocsDir][PREPARE_PROOF].t = "proof"
    /\ ByteLen(store[DocsDir][PREPARE_PROOF]) # last.res.val[2]
    /\ DebugFormat(CommShared(DocsDir, "prepare")) # last.res.val[3]
    /\ DebugFormat(CommShared(DocsDir, "show")) = last.res.val[3]

\* with_working_dir hands on what the body did: if the working directory can be read
\* and switched to path, the body ran, its effects are those of one run, and if it
\* returned, its result is the result of the call.
PassedThrough(path, out) ==
    LET w == with_working_dir(path, out) IN
    (current_dir_ok /\ set_current_dir_ok(path)) =>
        /\ w.ran
        /\ w.fs = out.fs /\ w.backend = out.backend /\ w.reads = out.reads
        /\ ~out.panic => w.res = out.res

\* C25 (the body's result is passed through): whenever the working directory can be
\* read and switched to the target, with_working_dir runs the body, once, and if the
\* body returns, returns exactly its result (the same Ok value, or the same error
\* variant and message) with the effects of that one run and no other; checked for
\* the closure of every caller-facing operation, over its arguments, in every
\* reachable state.
C25_BodyResultPassedThrough ==
    \A path \in DocumentsPaths :
        LET fs == Files(path) IN
        /\ \A c \in Selectors : PassedThrough(path, get_comm_w_shared_body(fs, c))
        /\ \A b \in 1..MaxBlind : PassedThrough(path, generate_shared_blinds_body(fs, b))
        /\ PassedThrough(path, verify_prepare_body(fs))
        /\ PassedThrough(path, verify_show_body(fs))
        /\ \A r \in 1..MaxRand :
              /\ PassedThrough(path, reblind_prepare_body(fs, r))
              /\ PassedThrough(path, reblind_show_body(fs, r))
        /\ \A i \in InputArgs :
              /\ PassedThrough(path, setup_prepare_keys_body(fs, i))
              /\ PassedThrough(path, setup_show_keys_body(fs, i))
              /\ \A r \in 1..MaxRand :
                    /\ PassedThrough(path, prove_prepare_body(fs, i, r))
                    /\ PassedThrough(path, prove_show_body(fs, i, r))

\* A call whose directory switch succeeded has returned the body's own error, which
\* is not an IoError, and the working directory is back where it was.
C25_Witness ==
    /\ last.op = "get_comm_w_shared" /\ last.ran /\ last.target = DocsDir
    /\ last.res = Err("FileNotFound", "Failed to load instance")
    /\ last.res = get_comm_w_shared_body(store[DocsDir], last.circuit_type).res
    /\ cwd = last.cwdBefore

\* The persisted artifacts of a kind: proving key, verifying key, instance, witness, proof.
KindPaths(kind) ==
    {ProvingKeyPath(kind), VerifyingKeyPath(kind), InstancePath(kind), WitnessPath(kind),
     ProofPath(kind)}
OtherKind(kind) == IF kind = "prepare" THEN "show" ELSE "prepare"
KindOps == {"setup", "prove", "reblind", "verify"}

\* C26 (kind isolation): a step that is a Setup, Prove, Reblind or Verify of one
\* kind, whatever its outcome, leaves every persisted artifact of the other kind and
\* the SharedBlindSet of every directory as they were; and a step that changes a
\* SharedBlindSet is a GenerateSharedBlinds.
C26_KindIsolation ==
    [][/\ (last'.op \in KindOps /\ last'.kind \in Kinds) =>
             \A d \in ExistingDirs :
                 /\ \A p \in KindPaths(OtherKind(last'.kind)) : store'[d][p] = store[d][p]
                 /\ store'[d][SHARED_BLINDS] = store[d][SHARED_BLINDS]
       /\ (\E d \in ExistingDirs : store'[d][SHARED_BLINDS] # store[d][SHARED_BLINDS])
             => last'.op = "generate_shared_blinds"]_vars

\* Reblind(Prepare) has just succeeded in a directory that holds a Show Instance,
\* Witness and Proof written by Prove(Show), which are still the ones Prove wrote.
C26_Witness ==
    /\ last.op = "reblind" /\ last.kind = "prepare" /\ last.res.tag = "Ok"
    /\ store[DocsDir][PREPARE_PROOF].origin = "reblind"
    /\ IsInstance(DocsDir, "show")
    /\ store[DocsDir][SHOW_WITNESS].t = "witness"
    /\ store[DocsDir][SHOW_PROOF].t = "proof"
    /\ store[DocsDir][SHOW_PROOF].origin = "prove"
    /\ CommShared(DocsDir, "show") = ghost[DocsDir].commAtProve["show"]

\* C27 (one SharedBlindSet per pipeline run): after a run of the pipeline whose
\* steps 3 to 7 completed, the set persisted at step 3 is the one in the store, the
\* Prepare Instance and the Show Instance that the Reblind steps left both commit
\* under it, and they carry the same comm_W_shared.
C27_OneBlindSetOneCommitment ==
    (BenchRan /\ Completed(7)) =>
        LET fs == store[last.target] IN
        /\ KindArtifactsKept(fs, "prepare", TRUE)
        /\ KindArtifactsKept(fs, "show", TRUE)
        /\ CommShared(last.target, "prepare") = CommShared(last.target, "show")

\* The closure after its two Setup steps (lines 382-410), started on files fs.
KeysHeld(fs, input_path) ==
    bench_setup(bench_setup(BenchStart(fs), 1, PrepareCircuit(input_path),
                            PREPARE_PROVING_KEY, PREPARE_VERIFYING_KEY, 0),
                2, ShowCircuit(input_path), SHOW_PROVING_KEY, SHOW_VERIFYING_KEY, 0)

PassedSizeCheck == wtns.pc \in {"size_checked", "returned"}

\* C31 (exact size check): a file passes the size check of load_witness_from_file
\* only if the section-2 size it declares is witness_len * field_size computed on
\* unbounded integers; a size that equals the product only modulo the width of
\* u32 does not pass.
C31_SizeCheckExact ==
    PassedSizeCheck => wtns.file.sec2_size = wtns.file.witness_len * wtns.file.field_size

====
